---- MODULE Spec2Model ----
(***************************************************************************)
(* rnm: batch file renamer.  Model of src/src/renamer.ts (listFiles,       *)
(* computeNewNames, applyRenames) and of the two drivers that call it      *)
(* (src/src/commands/script.ts, src/src/commands/interactive.ts).          *)
(*                                                                         *)
(* A string is a sequence of one-character strings, so that it can be      *)
(* scanned: the file name a.e is <<"a", ".", "e">>.                        *)
(***************************************************************************)
EXTENDS Integers, Sequences, FiniteSets, TLC

(***************************************************************************)
(* Strings                                                                 *)
(***************************************************************************)

\* The suffix of s that starts at index k.
From(s, k) == SubSeq(s, k, Len(s))

\* All sequences over S of length at most n.
RECURSIVE SeqsUpTo(_, _)
SeqsUpTo(S, n) ==
  IF n = 0 THEN {<<>>}
  ELSE LET shorter == SeqsUpTo(S, n - 1)
       IN  shorter \cup {Append(s, c) : s \in shorter, c \in S}

\* The set of elements of a sequence.
Range(s) == {s[k] : k \in 1..Len(s)}

(***************************************************************************)
(* escapeRegexLiteral (renamer.ts:15-17)                                   *)
(***************************************************************************)

\* The character class of renamer.ts:16: [.*+?^${}()|[\]\\]
MetaChars ==
  {".", "*", "+", "?", "^", "$", "{", "}", "(", ")", "|", "[", "]", "\\"}

\* A buggy escape whose class lacks the dot.
RECURSIVE escapeAllButDot(_)
escapeAllButDot(s) ==
  IF s = <<>> THEN <<>>
  ELSE (IF Head(s) \in MetaChars \ {"."} THEN <<"\\", Head(s)>> ELSE <<Head(s)>>)
         \o escapeAllButDot(Tail(s))

\* s.replace(/[.*+?^${}()|[\]\\]/g, "\\$&"): a backslash before every
\* metacharacter.
RECURSIVE escapeRegexLiteral(_)
escapeRegexLiteral(s) ==
  IF s = <<>> THEN <<>>
  ELSE (IF Head(s) \in MetaChars THEN <<"\\", Head(s)>> ELSE <<Head(s)>>)
         \o escapeRegexLiteral(Tail(s))

(***************************************************************************)
(* new RegExp(source, flags) (renamer.ts:41, 47).  The pattern language    *)
(* modelled is the part of ECMAScript's that the patterns drawn below      *)
(* use: literal characters, the dot, identity escapes \c, character        *)
(* classes [...] and the quantifier +.  A compiled pattern is a sequence   *)
(* of items [set, any, plus]: the item accepts a character that is in set, *)
(* or any character when any is TRUE, once, or one or more times when plus *)
(* is TRUE.                                                                *)
(***************************************************************************)

Item(set, any, plus) == [set |-> set, any |-> any, plus |-> plus]

\* Index of the "]" that closes the class opened before index k, 0 if none.
RECURSIVE ClassEnd(_, _)
ClassEnd(p, k) ==
  IF k > Len(p) THEN 0
  ELSE IF p[k] = "\\" THEN ClassEnd(p, k + 2)
  ELSE IF p[k] = "]" THEN k
  ELSE ClassEnd(p, k + 1)

\* The characters of the class body p[k..e-1] (escapes resolved).
RECURSIVE ClassSet(_, _, _)
ClassSet(p, k, e) ==
  IF k >= e THEN {}
  ELSE IF p[k] = "\\" THEN {p[k + 1]} \cup ClassSet(p, k + 2, e)
  ELSE {p[k]} \cup ClassSet(p, k + 1, e)

\* Parse p from index k on; items is what was parsed so far.
RECURSIVE Parse(_, _, _)
Parse(p, k, items) ==
  IF k > Len(p) THEN [valid |-> TRUE, items |-> items]
  ELSE
    LET c == p[k]
        \* the atom that starts at k, and the index after it (0: syntax error)
        atom ==
          IF c = "\\" THEN
            IF k = Len(p) THEN [next |-> 0, set |-> {}, any |-> FALSE]
            ELSE [next |-> k + 2, set |-> {p[k + 1]}, any |-> FALSE]
          ELSE IF c = "." THEN [next |-> k + 1, set |-> {}, any |-> TRUE]
          ELSE IF c = "[" THEN
            LET e == ClassEnd(p, k + 1)
            IN  IF e = 0 THEN [next |-> 0, set |-> {}, any |-> FALSE]
                ELSE [next |-> e + 1, set |-> ClassSet(p, k + 1, e), any |-> FALSE]
          ELSE IF c = "+" THEN [next |-> 0, set |-> {}, any |-> FALSE]
          ELSE [next |-> k + 1, set |-> {c}, any |-> FALSE]
    IN  IF atom.next = 0 THEN [valid |-> FALSE, items |-> <<>>]
        ELSE IF atom.next <= Len(p) /\ p[atom.next] = "+"
        THEN Parse(p, atom.next + 1, Append(items, Item(atom.set, atom.any, TRUE)))
        ELSE Parse(p, atom.next, Append(items, Item(atom.set, atom.any, FALSE)))

\* new RegExp(source, flags): valid is FALSE where the constructor throws a
\* SyntaxError; global is the "g" flag.
RegExp(source, global) ==
  LET r == Parse(source, 1, <<>>)
  IN  [valid |-> r.valid, items |-> r.items, global |-> global]

(***************************************************************************)
(* Matching: leftmost match, greedy quantifiers with backtracking.         *)
(***************************************************************************)

Accepts(it, c) == it.any \/ c \in it.set

\* Number of consecutive characters of s from pos on that the item accepts.
RECURSIVE Run(_, _, _)
Run(it, s, pos) ==
  IF pos <= Len(s) /\ Accepts(it, s[pos]) THEN 1 + Run(it, s, pos + 1) ELSE 0

\* Items k.. matched against s from pos: the index after the match, or 0.
RECURSIVE MatchFrom(_, _, _, _)
RECURSIVE TryPlus(_, _, _, _, _)
MatchFrom(items, k, s, pos) ==
  IF k > Len(items) THEN pos
  ELSE IF items[k].plus THEN TryPlus(items, k, s, pos, Run(items[k], s, pos))
  ELSE IF pos <= Len(s) /\ Accepts(items[k], s[pos])
       THEN MatchFrom(items, k + 1, s, pos + 1)
       ELSE 0
TryPlus(items, k, s, pos, n) ==
  IF n < 1 THEN 0
  ELSE LET r == MatchFrom(items, k + 1, s, pos + n)
       IN  IF r # 0 THEN r ELSE TryPlus(items, k, s, pos, n - 1)

\* The first match that starts at or after index from: <<start, end>> with
\* the match being s[start..end-1], or <<0, 0>> when there is none.
RECURSIVE FirstMatch(_, _, _)
FirstMatch(items, s, from) ==
  IF from > Len(s) + 1 THEN <<0, 0>>
  ELSE LET e == MatchFrom(items, 1, s, from)
       IN  IF e # 0 THEN <<from, e>> ELSE FirstMatch(items, s, from + 1)

(***************************************************************************)
(* String.prototype.replace(regex, replace) (renamer.ts:55)                *)
(***************************************************************************)

\* GetSubstitution: $$ is a dollar sign and $& the matched text; the
\* patterns modelled have no capture group, so $1.. stay as they are.
RECURSIVE Expand(_, _)
Expand(rep, matched) ==
  IF rep = <<>> THEN <<>>
  ELSE IF Head(rep) = "$" /\ Len(rep) >= 2 /\ rep[2] = "$"
       THEN <<"$">> \o Expand(From(rep, 3), matched)
  ELSE IF Head(rep) = "$" /\ Len(rep) >= 2 /\ rep[2] = "&"
       THEN matched \o Expand(From(rep, 3), matched)
  ELSE <<Head(rep)>> \o Expand(Tail(rep), matched)

\* Without the g flag: the first match only.
ReplaceFirst(items, s, rep) ==
  LET m == FirstMatch(items, s, 1)
  IN  IF m[1] = 0 THEN s
      ELSE SubSeq(s, 1, m[1] - 1) \o Expand(rep, SubSeq(s, m[1], m[2] - 1))
             \o From(s, m[2])

\* With the g flag: every match, left to right, the search resuming after
\* the previous match (one character further after an empty match).
RECURSIVE ReplaceAll(_, _, _, _)
ReplaceAll(items, s, rep, from) ==
  LET m == FirstMatch(items, s, from)
  IN  IF m[1] = 0 THEN From(s, from)
      ELSE SubSeq(s, from, m[1] - 1) \o Expand(rep, SubSeq(s, m[1], m[2] - 1))
             \o (IF m[2] > m[1] THEN ReplaceAll(items, s, rep, m[2])
                 ELSE IF m[1] > Len(s) THEN <<>>
                 ELSE <<s[m[1]]>> \o ReplaceAll(items, s, rep, m[1] + 1))

\* oldName.replace(regex, replace)
Replace(s, regex, rep) ==
  IF regex.global THEN ReplaceAll(regex.items, s, rep, 1)
  ELSE ReplaceFirst(regex.items, s, rep)

(***************************************************************************)
(* computeNewNames (renamer.ts:32-76)                                      *)
(***************************************************************************)

Entry(oldName, newName) == [oldName |-> oldName, newName |-> newName]

\* What a throw of computeNewNames reports: the kind of error and the text
\* its message names.
Thrown(err, name) == [ok |-> FALSE, renames |-> <<>>, err |-> err, name |-> name]
Returned(renames) == [ok |-> TRUE, renames |-> renames, err |-> "none", name |-> <<>>]

\* A buggy pattern builder that accepts an empty literal find.
buildRegexNoEmptyCheck(find, isRegex) ==
  LET r == IF isRegex THEN RegExp(find, FALSE)
           ELSE RegExp(escapeRegexLiteral(find), TRUE)
  IN  IF r.valid THEN [ok |-> TRUE, regex |-> r, err |-> "none"]
      ELSE [ok |-> FALSE, regex |-> r, err |-> "invalid_regex"]

\* renamer.ts:38-48: the pattern the loop uses, or the error thrown.
buildRegex(find, isRegex) ==
  IF isRegex THEN
    LET r == RegExp(find, FALSE)
    IN  IF r.valid THEN [ok |-> TRUE, regex |-> r, err |-> "none"]
        ELSE [ok |-> FALSE, regex |-> r, err |-> "invalid_regex"]
  ELSE IF find = <<>> THEN
    [ok |-> FALSE, regex |-> RegExp(<<>>, TRUE), err |-> "empty_find"]
  ELSE [ok |-> TRUE, regex |-> RegExp(escapeRegexLiteral(find), TRUE), err |-> "none"]

\* A buggy validation that lets two sources share a target.
checkCandidateNoDuplicate(oldName, newName, newNamesSeen, fileSet) ==
  IF newName = <<>> THEN "empty"
  ELSE IF newName # oldName /\ newName \in fileSet THEN "overwrite"
  ELSE "ok"

\* A buggy validation without the check against the existing file names.
checkCandidateNoOverwrite(oldName, newName, newNamesSeen, fileSet) ==
  IF newName = <<>> THEN "empty"
  ELSE IF newName \in newNamesSeen THEN "duplicate"
  ELSE "ok"

\* A buggy validation that checks for an empty name only.
checkCandidateOnlyEmpty(oldName, newName, newNamesSeen, fileSet) ==
  IF newName = <<>> THEN "empty" ELSE "ok"

\* renamer.ts:57-67: the three checks on a candidate, in the code's order.
checkCandidate(oldName, newName, newNamesSeen, fileSet) ==
  IF newName = <<>> THEN "empty"
  ELSE IF newName \in newNamesSeen THEN "duplicate"
  ELSE IF newName # oldName /\ newName \in fileSet THEN "overwrite"
  ELSE "ok"

\* A buggy push that also records a file that keeps its name.
pushRenameAlways(renames, oldName, newName) ==
  Append(renames, Entry(oldName, newName))

\* renamer.ts:70-72: a candidate that differs from its source is appended.
pushRename(renames, oldName, newName) ==
  IF newName # oldName THEN Append(renames, Entry(oldName, newName)) ELSE renames

\* A buggy loop that checks a candidate against the files before it only.
RECURSIVE planLoopEarlierFiles(_, _, _, _, _, _)
planLoopEarlierFiles(files, k, regex, replace, renames, newNamesSeen) ==
  IF k > Len(files) THEN Returned(renames)
  ELSE
    LET oldName == files[k]
        newName == Replace(oldName, regex, replace)
        verdict == checkCandidate(oldName, newName, newNamesSeen,
                                  Range(SubSeq(files, 1, k)))
    IN  IF verdict = "empty" THEN Thrown("empty", oldName)
        ELSE IF verdict # "ok" THEN Thrown(verdict, newName)
        ELSE planLoopEarlierFiles(files, k + 1, regex, replace,
                                  pushRename(renames, oldName, newName),
                                  newNamesSeen \cup {newName})

\* renamer.ts:54-73: the loop over files, from index k on.
RECURSIVE planLoop(_, _, _, _, _, _)
planLoop(files, k, regex, replace, renames, newNamesSeen) ==
  IF k > Len(files) THEN Returned(renames)
  ELSE
    LET oldName == files[k]
        newName == Replace(oldName, regex, replace)
        verdict == checkCandidate(oldName, newName, newNamesSeen, Range(files))
    IN  IF verdict = "empty" THEN Thrown("empty", oldName)
        ELSE IF verdict # "ok" THEN Thrown(verdict, newName)
        ELSE planLoop(files, k + 1, regex, replace,
                      pushRename(renames, oldName, newName),
                      newNamesSeen \cup {newName})

computeNewNames(files, find, replace, isRegex) ==
  LET b == buildRegex(find, isRegex)
  IN  IF ~b.ok THEN Thrown(b.err, find)
      ELSE planLoop(files, 1, b.regex, replace, <<>>, {})

(***************************************************************************)
(* The directory and renameSync (renamer.ts:88, 95).  A directory maps the *)
(* names of its entries to [kind, content]; content says which file it is. *)
(* Kinds: a regular file, a symbolic link, a (non-empty) directory, and an *)
(* entry that cannot be inspected (lstat and rename on it fail).           *)
(***************************************************************************)

Kinds == {"file", "link", "dir", "nostat"}

DirEntry(kind, content) == [kind |-> kind, content |-> content]

\* rename(2) within one directory: the source must exist; an existing
\* destination that is a file or a link is replaced; a directory is not
\* replaced by a file, nor a file by a directory.
renameSync(d, from, to) ==
  IF from \notin DOMAIN d THEN [ok |-> FALSE, err |-> "ENOENT", dir |-> d]
  ELSE IF d[from].kind = "nostat" THEN [ok |-> FALSE, err |-> "EACCES", dir |-> d]
  ELSE IF from = to THEN [ok |-> TRUE, err |-> "none", dir |-> d]
  ELSE IF to \in DOMAIN d /\ d[to].kind = "nostat"
       THEN [ok |-> FALSE, err |-> "EACCES", dir |-> d]
  ELSE IF to \in DOMAIN d /\ d[to].kind = "dir"
       THEN [ok |-> FALSE,
             err |-> IF d[from].kind = "dir" THEN "ENOTEMPTY" ELSE "EISDIR",
             dir |-> d]
  ELSE IF to \in DOMAIN d /\ d[from].kind = "dir"
       THEN [ok |-> FALSE, err |-> "ENOTDIR", dir |-> d]
  ELSE [ok |-> TRUE, err |-> "none",
        dir |-> [n \in (DOMAIN d \ {from}) \cup {to} |->
                   IF n = to THEN d[from] ELSE d[n]]]

(***************************************************************************)
(* applyRenames (renamer.ts:78-97): helpers                                *)
(***************************************************************************)

\* The decimal digits of a natural number, as `${i}` prints it.
RECURSIVE Digits(_)
Digits(n) ==
  LET d == <<"0", "1", "2", "3", "4", "5", "6", "7", "8", "9">>
  IN  IF n < 10 THEN <<d[n + 1]>> ELSE Digits(n \div 10) \o <<d[(n % 10) + 1]>>

\* renamer.ts:87: `__rnm_${i}_${oldName}`, i the 0-based index of the entry.
tempName(k, oldName) ==
  <<"_", "_", "r", "n", "m", "_">> \o Digits(k) \o <<"_">> \o oldName

\* renamer.ts:81: new Set(renames.map((r) => r.newName))
targets(batch) == {batch[k].newName : k \in 1..Len(batch)}

\* A buggy phase 1 that stages nothing.
needsStagingNever(oldName, batch) == FALSE

\* A buggy test that stages every entry.
needsStagingAlways(oldName, batch) == TRUE

\* renamer.ts:86: targets.has(oldName)
needsStaging(oldName, batch) == oldName \in targets(batch)

\* A buggy lookup that forgets the files moved in phase 1.
fromNameIgnoresMoved(map, oldName) == oldName

\* renamer.ts:94: moved.get(oldName) ?? oldName
fromName(map, oldName) == IF oldName \in DOMAIN map THEN map[oldName] ELSE oldName

\* moved.set(oldName, tempName)
MapSet(map, key, value) ==
  [n \in DOMAIN map \cup {key} |-> IF n = key THEN value ELSE map[n]]

Call(from, to, ok) == [from |-> from, to |-> to, ok |-> ok]

(***************************************************************************)
(* The inputs the planner is checked on                                    *)
(***************************************************************************)

\* Longest file list given to the planner.
MaxFiles == 2

Names ==
  { <<"a">>, <<"e">>, <<"a", "a">>, <<"a", "e">>, <<"e", "e">>,
    <<"a", ".", "e">>, <<"a", ".", "a">>, <<"a", "+">> }

PatChars == {"a", ".", "+", "[", "\\"}

Finds ==
  SeqsUpTo(PatChars, 2)
    \cup { <<"[", "a", "e", "]">>, <<"[", ".", "]", "+">>, <<"a", ".", "a">> }

Replaces ==
  { <<>>, <<"e">>, <<"a", "a">>, <<"$", "&", "e">>, <<"$", "$">> }

(***************************************************************************)
(* State                                                                   *)
(***************************************************************************)

VARIABLES
  pc,          \* where the run is
  files,       \* the file list given to computeNewNames
  find,        \* the find pattern
  replace,     \* the replacement text
  isRegex,     \* TRUE: find is a regular expression
  plan,        \* what computeNewNames returned or threw
  dir,         \* the directory: name -> [kind, content]
  dir0,        \* the directory as it was when the run started
  renames,     \* the batch given to applyRenames
  moved,       \* applyRenames' map oldName -> temporary name
  i,           \* applyRenames' loop index (0-based)
  calls,       \* the renameSync calls issued so far, in order
  applyCalls,  \* how many times applyRenames was invoked
  args,        \* the parsed command line (ParsedArgs)
  mode,        \* "script", "interactive", or "none" while no driver runs
  exitCode,    \* the process' exit code, Running until it exits
  answer       \* the answer to the latest prompt, "none" before any prompt

planVars == <<files, find, replace, isRegex, plan>>
applyVars == <<dir, renames, moved, i, calls, applyCalls>>
runVars == <<args, mode, exitCode, answer>>
vars == <<pc, planVars, dir0, applyVars, runVars>>

Running == -1

\* ParsedArgs (flags.ts:9-18); dir, find and replace are undefined when has*
\* is FALSE.
NoArgs ==
  [help |-> FALSE, version |-> FALSE, dryRun |-> FALSE, yes |-> FALSE,
   literal |-> FALSE, hasDir |-> FALSE, hasFind |-> FALSE, hasReplace |-> FALSE,
   find |-> <<>>, replace |-> <<>>]

NoPlan == [ok |-> FALSE, renames |-> <<>>, err |-> "unset", name |-> <<>>]

\* The empty directory, and the empty map.
NoEntries == [n \in {} |-> n]

(***************************************************************************)
(* PlanSpec: computeNewNames applied to every input within the bounds.     *)
(***************************************************************************)

PlanInit ==
  /\ pc = "plan"
  /\ files \in SeqsUpTo(Names, MaxFiles)
  /\ find \in Finds
  /\ replace \in Replaces
  /\ isRegex \in BOOLEAN
  /\ plan = NoPlan
  /\ dir = NoEntries /\ dir0 = NoEntries
  /\ renames = <<>> /\ moved = NoEntries /\ i = 0
  /\ calls = <<>> /\ applyCalls = 0
  /\ args = NoArgs /\ mode = "none" /\ exitCode = Running /\ answer = "none"

PlanStep ==
  /\ pc = "plan"
  /\ plan' = computeNewNames(files, find, replace, isRegex)
  /\ pc' = "planned"
  /\ UNCHANGED <<files, find, replace, isRegex, dir0, applyVars, runVars>>

PlanNext == PlanStep

PlanSpec == PlanInit /\ [][PlanNext]_vars

(***************************************************************************)
(* applyRenames (renamer.ts:78-97), one renameSync call per step.          *)
(***************************************************************************)

\* A buggy entry that also returns at once for a batch of one entry.
ApplyEnterSkipsSingle ==
  /\ pc = "apply"
  /\ applyCalls' = applyCalls + 1
  /\ moved' = NoEntries
  /\ i' = 0
  /\ pc' = IF Len(renames) <= 1 THEN "applied" ELSE "stage"
  /\ UNCHANGED <<planVars, runVars, dir0, dir, renames, calls>>

\* renamer.ts:79-82: the call; an empty batch returns at once.
ApplyEnter ==
  /\ pc = "apply"
  /\ applyCalls' = applyCalls + 1
  /\ moved' = NoEntries
  /\ i' = 0
  /\ pc' = IF Len(renames) = 0 THEN "applied" ELSE "stage"
  /\ UNCHANGED <<planVars, runVars, dir0, dir, renames, calls>>

\* renamer.ts:84-91: phase 1, the loop body for index i.
Stage ==
  /\ pc = "stage"
  /\ LET oldName == renames[i + 1].oldName
         temp == tempName(i, oldName)
         r == renameSync(dir, oldName, temp)
         last == i + 1 = Len(renames)
     IN  IF needsStaging(oldName, renames)
         THEN /\ calls' = Append(calls, Call(oldName, temp, r.ok))
              /\ dir' = r.dir
              /\ IF r.ok
                 THEN /\ moved' = MapSet(moved, oldName, temp)
                      /\ i' = IF last THEN 0 ELSE i + 1
                      /\ pc' = IF last THEN "finalize" ELSE "stage"
                 ELSE /\ pc' = "apply_failed"
                      /\ UNCHANGED <<moved, i>>
         ELSE /\ i' = IF last THEN 0 ELSE i + 1
              /\ pc' = IF last THEN "finalize" ELSE "stage"
              /\ UNCHANGED <<dir, moved, calls>>
  /\ UNCHANGED <<planVars, runVars, dir0, renames, applyCalls>>

\* A buggy phase 2 that swallows the error of a rename and goes on to the
\* next entry.
FinalizeSwallowsError ==
  /\ pc = "finalize"
  /\ LET e == renames[i + 1]
         from == fromName(moved, e.oldName)
         r == renameSync(dir, from, e.newName)
         last == i + 1 = Len(renames)
     IN  /\ calls' = Append(calls, Call(from, e.newName, r.ok))
         /\ dir' = r.dir
         /\ i' = i + 1
         /\ pc' = IF last THEN (IF r.ok THEN "applied" ELSE "apply_failed")
                          ELSE "finalize"
  /\ UNCHANGED <<planVars, runVars, dir0, renames, moved, applyCalls>>

\* renamer.ts:93-96: phase 2, the loop body for the entry at index i.
Finalize ==
  /\ pc = "finalize"
  /\ LET e == renames[i + 1]
         from == fromName(moved, e.oldName)
         r == renameSync(dir, from, e.newName)
         last == i + 1 = Len(renames)
     IN  /\ calls' = Append(calls, Call(from, e.newName, r.ok))
         /\ dir' = r.dir
         /\ IF r.ok
            THEN /\ i' = i + 1
                 /\ pc' = IF last THEN "applied" ELSE "finalize"
            ELSE /\ pc' = "apply_failed"
                 /\ UNCHANGED i
  /\ UNCHANGED <<planVars, runVars, dir0, renames, moved, applyCalls>>

(***************************************************************************)
(* ApplySpec: applyRenames on every batch and directory within the bounds. *)
(***************************************************************************)

\* Longest batch given to applyRenames.
MaxBatch == 2

ApplyNames ==
  { <<"a">>, <<"e">>, <<"a", "a">>, tempName(0, <<"a">>) }

\* Every directory whose entries are named in S, with kinds from K; the
\* content of an entry is named after the entry.
Directories(S, K) ==
  UNION { [T -> K] : T \in SUBSET S }

DirOf(kindOf) == [n \in DOMAIN kindOf |-> DirEntry(kindOf[n], n)]

ApplyInit ==
  /\ pc = "apply"
  /\ files = <<>> /\ find = <<>> /\ replace = <<>> /\ isRegex = FALSE
  /\ plan = NoPlan
  /\ \E kindOf \in Directories(ApplyNames, {"file", "dir"}) : dir = DirOf(kindOf)
  /\ dir0 = dir
  /\ renames \in SeqsUpTo({Entry(o, n) : o, n \in ApplyNames}, MaxBatch)
  /\ moved = NoEntries /\ i = 0
  /\ calls = <<>> /\ applyCalls = 0
  /\ args = NoArgs /\ mode = "none" /\ exitCode = Running /\ answer = "none"

ApplyNext == ApplyEnter \/ Stage \/ Finalize

ApplySpec == ApplyInit /\ [][ApplyNext]_vars

(***************************************************************************)
(* listFiles (renamer.ts:19-30)                                            *)
(***************************************************************************)

\* The names listFiles returns: the entries lstat reports as regular files;
\* an entry lstat fails on is skipped.
listFiles(d) == {n \in DOMAIN d : d[n].kind = "file"}

\* readdirSync promises no order: every ordering of the names.
Orderings(S) ==
  {q \in SeqsUpTo(S, Cardinality(S)) : Len(q) = Cardinality(S) /\ Range(q) = S}

(***************************************************************************)
(* The run: main (cli.ts:269-289), runScriptMode (script.ts:22-63) and     *)
(* runInteractive (interactive.ts:43-224).                                 *)
(***************************************************************************)

Exit(code) == pc' = "exited" /\ exitCode' = code

\* A buggy entry that takes script mode only when all three options are
\* given.
MainScriptNeedsAll ==
  /\ pc = "main"
  /\ IF args.help \/ args.version
       THEN Exit(0) /\ UNCHANGED mode
     ELSE IF args.hasDir /\ args.hasFind /\ args.hasReplace
       THEN pc' = "s_args" /\ mode' = "script" /\ UNCHANGED exitCode
     ELSE pc' = "i_path" /\ mode' = "interactive" /\ UNCHANGED exitCode
  /\ UNCHANGED <<planVars, dir0, applyVars, args, answer>>

\* cli.ts:269-289
Main ==
  /\ pc = "main"
  /\ IF args.help \/ args.version
       THEN Exit(0) /\ UNCHANGED mode
     ELSE IF args.hasDir \/ args.hasFind \/ args.hasReplace
       THEN pc' = "s_args" /\ mode' = "script" /\ UNCHANGED exitCode
     ELSE pc' = "i_path" /\ mode' = "interactive" /\ UNCHANGED exitCode
  /\ UNCHANGED <<planVars, dir0, applyVars, args, answer>>

\* script.ts:23-28: the three options are required; ensureDir exits when the
\* path is not an existing directory.
ScriptArgs ==
  /\ pc = "s_args"
  /\ \E isDirectory \in BOOLEAN :
       IF ~(args.hasDir /\ args.hasFind /\ args.hasReplace) THEN Exit(1)
       ELSE IF ~isDirectory THEN Exit(1)
       ELSE pc' = "s_list" /\ UNCHANGED exitCode
  /\ UNCHANGED <<planVars, dir0, applyVars, args, mode, answer>>

\* script.ts:29-34
ScriptList ==
  /\ pc = "s_list"
  /\ files' \in Orderings(listFiles(dir))
  /\ IF files' = <<>> THEN Exit(0) /\ UNCHANGED <<find, replace, isRegex>>
     ELSE /\ pc' = "s_compute"
          /\ find' = args.find
          /\ replace' = args.replace
          /\ isRegex' = ~args.literal
          /\ UNCHANGED exitCode
  /\ UNCHANGED <<plan, dir0, applyVars, args, mode, answer>>

\* A buggy driver that goes on to apply after a planner error.
ScriptComputeIgnoresError ==
  /\ pc = "s_compute"
  /\ plan' = computeNewNames(files, find, replace, isRegex)
  /\ renames' = plan'.renames
  /\ pc' = "apply"
  /\ UNCHANGED <<files, find, replace, isRegex, dir0, dir, moved, i, calls,
                 applyCalls, runVars>>

\* script.ts:35-46
ScriptCompute ==
  /\ pc = "s_compute"
  /\ plan' = computeNewNames(files, find, replace, isRegex)
  /\ renames' = plan'.renames
  /\ IF ~plan'.ok THEN Exit(1)
     ELSE IF Len(plan'.renames) = 0 THEN Exit(0)
     ELSE pc' = "s_preview" /\ UNCHANGED exitCode
  /\ UNCHANGED <<files, find, replace, isRegex, dir0, dir, moved, i, calls,
                 applyCalls, args, mode, answer>>

\* A buggy driver that looks at --yes before --dry-run.
ScriptPreviewYesFirst ==
  /\ pc = "s_preview"
  /\ IF args.yes THEN pc' = "apply" /\ UNCHANGED exitCode
     ELSE IF args.dryRun THEN Exit(0)
     ELSE Exit(1)
  /\ UNCHANGED <<planVars, dir0, applyVars, args, mode, answer>>

\* script.ts:47-54
ScriptPreview ==
  /\ pc = "s_preview"
  /\ IF args.dryRun THEN Exit(0)
     ELSE IF ~args.yes THEN Exit(1)
     ELSE pc' = "apply" /\ UNCHANGED exitCode
  /\ UNCHANGED <<planVars, dir0, applyVars, args, mode, answer>>

\* script.ts:55-62: applyRenames returned (the function returns, the
\* process ends with code 0) or threw.
ScriptDone ==
  /\ mode = "script"
  /\ pc \in {"applied", "apply_failed"}
  /\ Exit(IF pc = "applied" THEN 0 ELSE 1)
  /\ UNCHANGED <<planVars, dir0, applyVars, args, mode, answer>>

\* interactive.ts:49-68: the folder prompt; a cancel exits with 0, a path
\* that is no directory with 1.
InteractivePath ==
  /\ pc = "i_path"
  /\ answer' \in {"cancel", "missing", "directory"}
  /\ IF answer' = "cancel" THEN Exit(0)
     ELSE IF answer' = "missing" THEN Exit(1)
     ELSE pc' = "i_list" /\ UNCHANGED exitCode
  /\ UNCHANGED <<planVars, dir0, applyVars, args, mode>>

\* interactive.ts:69-73
InteractiveList ==
  /\ pc = "i_list"
  /\ files' \in Orderings(listFiles(dir))
  /\ IF files' = <<>> THEN Exit(0) ELSE pc' = "i_pattern" /\ UNCHANGED exitCode
  /\ UNCHANGED <<find, replace, isRegex, plan, dir0, applyVars, args, mode, answer>>

\* The patterns a run can be given.
RunFinds == { <<>>, <<"a">>, <<"a", "+">>, <<"[">> }
RunReplaces == { <<>>, <<"e">>, <<"a", "a">> }

\* interactive.ts:75-140: match type, then the pattern (a preset or typed
\* text) and the replacement; a cancel at any of the prompts exits with 0.
InteractivePattern ==
  /\ pc = "i_pattern"
  /\ \E cancel \in BOOLEAN, regex \in BOOLEAN, f \in RunFinds, r \in RunReplaces :
       IF cancel
       THEN answer' = "cancel" /\ Exit(0) /\ UNCHANGED <<find, replace, isRegex>>
       ELSE /\ answer' = "given"
            /\ isRegex' = regex
            /\ find' = f
            /\ replace' = r
            /\ pc' = "i_count"
            /\ UNCHANGED exitCode
  /\ UNCHANGED <<files, plan, dir0, applyVars, args, mode>>

\* countFilesWithMatch(files, find, isRegex): it throws, or returns the
\* number of files the pattern matches.
countFilesWithMatch == {"throws", "none", "some"}

\* interactive.ts:142-154
InteractiveCount ==
  /\ pc = "i_count"
  /\ \E matchCount \in countFilesWithMatch :
       IF matchCount = "throws" THEN Exit(1)
       ELSE IF matchCount = "none" THEN Exit(0)
       ELSE pc' = "i_compute" /\ UNCHANGED exitCode
  /\ UNCHANGED <<planVars, dir0, applyVars, args, mode, answer>>

\* interactive.ts:156-168
InteractiveCompute ==
  /\ pc = "i_compute"
  /\ plan' = computeNewNames(files, find, replace, isRegex)
  /\ renames' = plan'.renames
  /\ IF ~plan'.ok THEN Exit(1)
     ELSE IF Len(plan'.renames) = 0 THEN Exit(0)
     ELSE pc' = "i_preview" /\ UNCHANGED exitCode
  /\ UNCHANGED <<files, find, replace, isRegex, dir0, dir, moved, i, calls,
                 applyCalls, args, mode, answer>>

\* A buggy confirmation that only tests the answer for falsehood, so that
\* the cancel symbol counts as a yes.
InteractiveConfirmNoCancelCheck ==
  /\ pc = "i_preview"
  /\ IF args.dryRun THEN Exit(0) /\ UNCHANGED answer
     ELSE /\ answer' \in {"cancel", "no", "yes"}
          /\ IF answer' = "no" THEN Exit(0)
             ELSE pc' = "apply" /\ UNCHANGED exitCode
  /\ UNCHANGED <<planVars, dir0, applyVars, args, mode>>

\* interactive.ts:170-186: the preview, the dry run's exit, the
\* confirmation prompt.
InteractiveConfirm ==
  /\ pc = "i_preview"
  /\ IF args.dryRun THEN Exit(0) /\ UNCHANGED answer
     ELSE /\ answer' \in {"cancel", "no", "yes"}
          /\ IF answer' # "yes" THEN Exit(0)
             ELSE pc' = "apply" /\ UNCHANGED exitCode
  /\ UNCHANGED <<planVars, dir0, applyVars, args, mode>>

\* interactive.ts:188-224: applyRenames returned (the run ends normally,
\* whatever the save prompts are answered) or threw.
InteractiveDone ==
  /\ mode = "interactive"
  /\ pc \in {"applied", "apply_failed"}
  /\ Exit(IF pc = "applied" THEN 0 ELSE 1)
  /\ UNCHANGED <<planVars, dir0, applyVars, args, mode, answer>>

(***************************************************************************)
(* Spec: a run of the program on a directory.                              *)
(***************************************************************************)

RunNames == { <<"a">>, <<"e">>, <<"a", "a">> }

ArgsSet ==
  { a \in [help : BOOLEAN, version : BOOLEAN, dryRun : BOOLEAN, yes : BOOLEAN,
           literal : BOOLEAN, hasDir : BOOLEAN, hasFind : BOOLEAN,
           hasReplace : BOOLEAN, find : RunFinds, replace : RunReplaces] :
      /\ ~a.hasFind => a.find = <<>>
      /\ ~a.hasReplace => a.replace = <<>> }

Init ==
  /\ pc = "main"
  /\ files = <<>> /\ find = <<>> /\ replace = <<>> /\ isRegex = FALSE
  /\ plan = NoPlan
  /\ \E kindOf \in Directories(RunNames, Kinds) : dir = DirOf(kindOf)
  /\ dir0 = dir
  /\ renames = <<>> /\ moved = NoEntries /\ i = 0
  /\ calls = <<>> /\ applyCalls = 0
  /\ args \in ArgsSet
  /\ mode = "none" /\ exitCode = Running /\ answer = "none"

Next ==
  \/ Main
  \/ ScriptArgs \/ ScriptList \/ ScriptCompute \/ ScriptPreview \/ ScriptDone
  \/ InteractivePath \/ InteractiveList \/ InteractivePattern
  \/ InteractiveCount \/ InteractiveCompute \/ InteractiveConfirm
  \/ InteractiveDone
  \/ ApplyEnter \/ Stage \/ Finalize

Spec == Init /\ [][Next]_vars

(***************************************************************************)
(* Properties of the planner (checked under PlanSpec)                      *)
(***************************************************************************)

Planned == pc = "planned"

\* The candidate the planner's pattern gives for a name (when the pattern is
\* valid).
Candidate(name) == Replace(name, buildRegex(find, isRegex).regex, replace)

NewNamesOf(batch) == {batch[k].newName : k \in 1..Len(batch)}
OldNamesOf(batch) == {batch[k].oldName : k \in 1..Len(batch)}

\* C1: in a returned batch every newName is non-empty and the newNames are
\* pairwise distinct; when two input names yield the same candidate, no
\* batch is returned.
C1_NewNamesNonEmptyDistinct ==
  Planned =>
    /\ plan.ok =>
         /\ \A k \in 1..Len(plan.renames) : plan.renames[k].newName # <<>>
         /\ \A k, l \in 1..Len(plan.renames) :
              k # l => plan.renames[k].newName # plan.renames[l].newName
    /\ buildRegex(find, isRegex).ok
         /\ (\E k, l \in 1..Len(files) :
               k # l /\ Candidate(files[k]) = Candidate(files[l]))
       => ~plan.ok

\* A batch of two renames was returned.
C1_Witness == Planned /\ plan.ok /\ Len(plan.renames) >= 2

\* C2: in a returned batch no newName is a name of the file list, unless
\* that name is the oldName of an entry of the batch.
C2_NoTargetIsUntouchedFile ==
  Planned /\ plan.ok =>
    \A k \in 1..Len(plan.renames) :
      plan.renames[k].newName \in Range(files)
        => plan.renames[k].newName \in OldNamesOf(plan.renames)

\* A batch was returned for a list in which a file keeps its name.
C2_Witness ==
  /\ Planned /\ plan.ok /\ plan.renames # <<>>
  /\ \E f \in Range(files) : f \notin OldNamesOf(plan.renames)

\* C3: a candidate is rejected as an overwrite only when its target is an
\* original file name that is not itself being renamed (a file the pattern
\* leaves unchanged); a target that another entry is renamed away from is
\* accepted.
C3_OverwriteOnlyOfUntouched ==
  Planned /\ ~plan.ok /\ plan.err = "overwrite" => Candidate(plan.name) = plan.name

\* C7: in regex mode the newName of every entry is the oldName with every
\* match of the pattern replaced.
C7_RegexReplacesEveryMatch ==
  Planned /\ isRegex /\ plan.ok =>
    \A k \in 1..Len(plan.renames) :
      plan.renames[k].newName =
        ReplaceAll(buildRegex(find, isRegex).regex.items,
                   plan.renames[k].oldName, replace, 1)

\* The name with every occurrence of the text find replaced by to, found by
\* scanning the name left to right (no pattern involved).
RECURSIVE LiteralReplaceAll(_, _, _)
LiteralReplaceAll(name, text, to) ==
  IF name = <<>> THEN <<>>
  ELSE IF Len(name) >= Len(text) /\ SubSeq(name, 1, Len(text)) = text
       THEN to \o LiteralReplaceAll(From(name, Len(text) + 1), text, to)
  ELSE <<Head(name)>> \o LiteralReplaceAll(Tail(name), text, to)

LiteralCandidate(name) == LiteralReplaceAll(name, find, Expand(replace, find))

\* C8: in literal mode with a non-empty find the pattern always compiles,
\* and the candidate of a file is its name with every occurrence of the
\* text find replaced (metacharacters standing for themselves): the batch
\* has exactly the files whose name contains find, with these candidates,
\* and an error names such a candidate (or, for an empty one, its file).
C8_LiteralMatchesText ==
  Planned /\ ~isRegex /\ find # <<>> =>
    /\ plan.err \notin {"invalid_regex", "empty_find"}
    /\ plan.ok =>
         /\ \A k \in 1..Len(plan.renames) :
              plan.renames[k].newName = LiteralCandidate(plan.renames[k].oldName)
         /\ OldNamesOf(plan.renames) =
              {f \in Range(files) : LiteralCandidate(f) # f}
    /\ plan.err = "empty" =>
         plan.name \in Range(files) /\ LiteralCandidate(plan.name) = <<>>
    /\ plan.err \in {"duplicate", "overwrite"} =>
         plan.name \in {LiteralCandidate(f) : f \in Range(files)}

\* A literal find made of metacharacters renamed a file.
C8_Witness ==
  /\ Planned /\ ~isRegex /\ find # <<>> /\ Range(find) \subseteq MetaChars
  /\ plan.ok /\ plan.renames # <<>>

\* C9: an empty literal find, and a find that does not compile in regex
\* mode, make computeNewNames fail with the invalid-pattern error, whatever
\* the files and replace are; in regex mode the error names the pattern.
C9_InvalidPatternRejected ==
  Planned =>
    /\ ~isRegex /\ find = <<>> => ~plan.ok /\ plan.err = "empty_find"
    /\ isRegex /\ ~RegExp(find, FALSE).valid =>
         ~plan.ok /\ plan.err = "invalid_regex" /\ plan.name = find

\* An empty literal find was rejected for a list of files that an
\* everywhere-matching pattern would have renamed.
C9_Witness ==
  Planned /\ ~isRegex /\ find = <<>> /\ files # <<>> /\ replace # <<>> /\ ~plan.ok

(***************************************************************************)
(* Properties of the executor (checked under ApplySpec)                    *)
(***************************************************************************)

\* The temporary names phase 1 can use for the batch.
StagingNames(batch) ==
  {tempName(k - 1, batch[k].oldName) : k \in 1..Len(batch)}

\* The batches C4 speaks of, for the directory d: the oldNames exist, the
\* newNames are pairwise distinct, every newName is absent from d or the
\* oldName of another entry, and nothing is named like a temporary name.
PermutationBatch(d, batch) ==
  /\ OldNamesOf(batch) \subseteq DOMAIN d
  /\ \A k, l \in 1..Len(batch) : k # l => batch[k].newName # batch[l].newName
  /\ \A k \in 1..Len(batch) :
       \/ batch[k].newName \notin DOMAIN d
       \/ \E l \in 1..Len(batch) : l # k /\ batch[l].oldName = batch[k].newName
  /\ StagingNames(batch) \cap (DOMAIN d \cup NewNamesOf(batch)) = {}

DistinctOldNames(batch) ==
  \A k, l \in 1..Len(batch) : k # l => batch[k].oldName # batch[l].oldName

\* applyRenames did not fail and, once it has returned, every newName holds
\* what was at its oldName, the other entries are as they were, and the
\* directory has exactly the entries it should.
AppliedFaithfully ==
  /\ pc # "apply_failed"
  /\ pc = "applied" =>
       /\ \A k \in 1..Len(renames) :
            /\ renames[k].newName \in DOMAIN dir
            /\ dir[renames[k].newName] = dir0[renames[k].oldName]
       /\ \A n \in DOMAIN dir0 \ OldNamesOf(renames) :
            n \in DOMAIN dir /\ dir[n] = dir0[n]
       /\ DOMAIN dir = (DOMAIN dir0 \ OldNamesOf(renames)) \cup NewNamesOf(renames)

\* C4, as stated: for every batch of the kind above, applyRenames completes
\* without error and moves every file to its newName, losing nothing.
C4_PermutationSafeAsStated ==
  PermutationBatch(dir0, renames) => AppliedFaithfully

\* C4, amended: the same, for batches whose oldNames are pairwise distinct.
C4_PermutationSafe ==
  PermutationBatch(dir0, renames) /\ DistinctOldNames(renames) => AppliedFaithfully

\* A swap of two existing entries was applied.
C4_Witness ==
  /\ pc = "applied" /\ Len(renames) = 2
  /\ PermutationBatch(dir0, renames) /\ DistinctOldNames(renames)
  /\ renames[1].newName = renames[2].oldName
  /\ renames[2].newName = renames[1].oldName

(***************************************************************************)
(* Properties of a run (checked under Spec)                                *)
(***************************************************************************)

\* C5: when the batch planned from the listing has been applied without
\* error, listing the directory again gives exactly the newNames of the
\* batch and the listed files that have no entry in it.
C5_RoundTrip ==
  pc = "applied" /\ plan.ok =>
    listFiles(dir) =
      NewNamesOf(plan.renames) \cup (Range(files) \ OldNamesOf(plan.renames))

\* A batch was applied in a directory where a listed file keeps its name.
C5_Witness ==
  /\ pc = "applied" /\ plan.ok /\ plan.renames # <<>>
  /\ Range(files) \ OldNamesOf(plan.renames) # {}

\* C6: from listing to the end of the run, every entry of the directory
\* that is not an oldName of the batch stays where it is and as it is.
C6_NoUnrelatedEntryDestroyed ==
  \A n \in DOMAIN dir0 \ OldNamesOf(renames) :
    n \in DOMAIN dir /\ dir[n] = dir0[n]

PlannerFailed == plan.err \notin {"unset", "none"}

\* C10: when computeNewNames fails, it surfaces no batch, applyRenames is
\* not invoked, and no rename is issued on the directory.
C10_PlannerFailureHasNoEffect ==
  PlannerFailed =>
    /\ ~plan.ok /\ plan.renames = <<>> /\ renames = <<>>
    /\ applyCalls = 0 /\ calls = <<>> /\ dir = dir0

\* A run with --yes ended on a planner error, in each of the two drivers.
C10_Witness ==
  /\ PlannerFailed /\ pc = "exited"
  /\ plan.err \in {"duplicate", "overwrite"}
  /\ (mode = "script" => args.yes /\ ~args.dryRun)
  /\ (mode = "interactive" => ~args.dryRun)

(***************************************************************************)
(* More properties of the planner (checked under PlanSpec)                 *)
(***************************************************************************)

\* The entries of the files from index k on whose candidate differs from
\* their name, in the order of the files.
RECURSIVE ChangedEntries(_, _)
ChangedEntries(list, k) ==
  IF k > Len(list) THEN <<>>
  ELSE (IF Candidate(list[k]) # list[k]
          THEN <<Entry(list[k], Candidate(list[k]))>>
          ELSE <<>>)
         \o ChangedEntries(list, k + 1)

\* C11: a returned batch has exactly one entry for each input file whose
\* candidate differs from its name, none with newName equal to oldName, in
\* the order of the input files.
C11_BatchIsChangedFilesInOrder ==
  Planned /\ plan.ok =>
    /\ plan.renames = ChangedEntries(files, 1)
    /\ \A k \in 1..Len(plan.renames) :
         plan.renames[k].newName # plan.renames[k].oldName

\* A batch was returned that renames the second of two files and leaves the
\* first as it is.
C11_Witness ==
  /\ Planned /\ plan.ok /\ Len(files) = 2 /\ Len(plan.renames) = 1
  /\ plan.renames[1].oldName = files[2]
  /\ files[1] # files[2]

(***************************************************************************)
(* More properties of the executor (checked under ApplySpec)               *)
(***************************************************************************)

\* A batch as a planner is meant to give it, for the directory d: distinct
\* sources that are regular files, distinct targets, no identity entry.
WellFormedBatch(d, batch) ==
  /\ OldNamesOf(batch) \subseteq DOMAIN d
  /\ \A k \in 1..Len(batch) :
       /\ d[batch[k].oldName].kind = "file"
       /\ batch[k].newName # batch[k].oldName
  /\ DistinctOldNames(batch)
  /\ \A k, l \in 1..Len(batch) : k # l => batch[k].newName # batch[l].newName

\* C12: the temporary name phase 1 is about to use differs from the
\* temporary names already used in the call, from the name of every entry
\* of the directory and from every newName of the batch.
C12_TempNameIsFresh ==
  /\ pc = "stage"
  /\ WellFormedBatch(dir0, renames)
  /\ needsStaging(renames[i + 1].oldName, renames)
  => LET temp == tempName(i, renames[i + 1].oldName)
     IN  /\ temp \notin {moved[n] : n \in DOMAIN moved}
         /\ temp \notin DOMAIN dir
         /\ temp \notin targets(renames)


\* The directory after the successful calls among calls k.. of a log have
\* acted on d, in order.
RECURSIVE Replay(_, _, _)
Replay(d, log, k) ==
  IF k > Len(log) THEN d
  ELSE Replay(IF log[k].ok THEN renameSync(d, log[k].from, log[k].to).dir ELSE d,
              log, k + 1)

\* C13: a failed rename call is the last call of applyRenames, which then
\* has thrown; every call before it succeeded and is not undone: the
\* directory is the original one with exactly the successful calls applied.
C13_FailureStopsAtOnce ==
  /\ \A k \in 1..(Len(calls) - 1) : calls[k].ok
  /\ (pc = "apply_failed") = (calls # <<>> /\ ~calls[Len(calls)].ok)
  /\ dir = Replay(dir0, calls, 1)

\* A staged file and a finalized file are left as they are by the failure
\* of the third call.
C13_Witness ==
  /\ pc = "apply_failed"
  /\ Len(calls) = 3
  /\ calls[1].from \in OldNamesOf(renames) /\ calls[1].to \in StagingNames(renames)
  /\ calls[2].to \in NewNamesOf(renames)
  /\ calls[1].to \in DOMAIN dir /\ calls[2].to \in DOMAIN dir
  /\ calls[1].from \notin DOMAIN dir
  /\ dir # dir0


(***************************************************************************)
(* Properties of the run (checked under Spec)                              *)
(***************************************************************************)

InApply == pc \in {"apply", "stage", "finalize", "applied", "apply_failed"}

BatchComputed == plan.ok /\ plan.renames # <<>>

\* C14: with --dry-run, in script mode (with or without --yes) and in
\* interactive mode, applyRenames is never invoked, no rename call is made
\* and the directory stays as it was; a run that computed a batch ends with
\* exit code 0.
C14_DryRunRenamesNothing ==
  args.dryRun =>
    /\ ~InApply
    /\ applyCalls = 0 /\ calls = <<>> /\ dir = dir0
    /\ pc = "exited" /\ BatchComputed => exitCode = 0

\* A script run with --dry-run and --yes that computed a batch has ended.
C14_Witness ==
  /\ mode = "script" /\ args.dryRun /\ args.yes
  /\ BatchComputed
  /\ pc = "exited" /\ exitCode = 0


SecondPlans ==
  {computeNewNames(listing, find, replace, isRegex) :
     listing \in Orderings(listFiles(dir))}

\* C16: after the batch of a run was applied successfully, planning again
\* on the directory listed again, with the same pattern, gives (when it
\* gives a batch at all) an empty batch or a batch in which no oldName is an
\* oldName of the applied batch; the applied oldNames are no longer listed.
C16_Idempotence ==
  pc = "applied" /\ BatchComputed =>
    /\ OldNamesOf(plan.renames) \cap listFiles(dir) = {}
    /\ \A second \in SecondPlans :
         second.ok => OldNamesOf(second.renames) \cap OldNamesOf(plan.renames) = {}

\* The second planning renames a file the first run produced.
C16_Witness ==
  /\ pc = "applied" /\ BatchComputed
  /\ \E second \in SecondPlans :
       /\ second.ok
       /\ OldNamesOf(second.renames) \cap NewNamesOf(plan.renames) # {}


(***************************************************************************)
(* The planner's errors (checked under PlanSpec)                           *)
(***************************************************************************)

\* The listing names each file once.
DistinctFiles == \A k, l \in 1..Len(files) : k # l => files[k] # files[l]

\* C17: a duplicate-target error is thrown only for a target that an earlier
\* file of the input, itself renamed, already produced; a target that is
\* the name of a file that keeps its name is reported as an overwrite,
\* wherever that file stands in the input.
C17_ErrorNamesViolatedInvariant ==
  Planned /\ DistinctFiles /\ ~plan.ok =>
    /\ plan.err = "duplicate" =>
         \E k, l \in 1..Len(files) :
           /\ k < l
           /\ Candidate(files[k]) = plan.name /\ files[k] # plan.name
           /\ Candidate(files[l]) = plan.name
    /\ (\E k, l \in 1..Len(files) :
          /\ Candidate(files[k]) = files[k]
          /\ Candidate(files[l]) = files[k] /\ files[l] # files[k]
          /\ plan.name = files[k])
       => plan.err = "overwrite"


(***************************************************************************)
(* The order of the rename calls (checked under ApplySpec)                 *)
(***************************************************************************)

\* The stage renames the claim describes for the entries k.. of a batch.
RECURSIVE StageCalls(_, _)
StageCalls(batch, k) ==
  IF k > Len(batch) THEN <<>>
  ELSE (IF batch[k].oldName \in NewNamesOf(batch)
          THEN << <<batch[k].oldName, tempName(k - 1, batch[k].oldName)>> >>
          ELSE <<>>)
         \o StageCalls(batch, k + 1)

\* The finalize renames the claim describes for the entries k.. of a batch.
RECURSIVE FinalizeCalls(_, _)
FinalizeCalls(batch, k) ==
  IF k > Len(batch) THEN <<>>
  ELSE << <<IF batch[k].oldName \in NewNamesOf(batch)
              THEN tempName(k - 1, batch[k].oldName)
              ELSE batch[k].oldName,
            batch[k].newName>> >>
         \o FinalizeCalls(batch, k + 1)

ExpectedCalls(batch) == StageCalls(batch, 1) \o FinalizeCalls(batch, 1)

IssuedCalls == [k \in 1..Len(calls) |-> <<calls[k].from, calls[k].to>>]

\* C18: the rename calls issued so far are the first calls of: the stage
\* renames of the entries whose oldName is a newName of the batch, in batch
\* order, then one finalize rename per entry, in batch order, from the
\* temporary name of a staged entry and from the oldName of any other; a
\* call that returned has issued all of them, and an empty batch none.
C18_CallOrder ==
  /\ Len(calls) <= Len(ExpectedCalls(renames))
  /\ IssuedCalls = SubSeq(ExpectedCalls(renames), 1, Len(calls))
  /\ pc = "applied" => Len(calls) = Len(ExpectedCalls(renames))
  /\ renames = <<>> => calls = <<>>

\* A returned call on a batch with one staged and one unstaged entry.
C18_Witness ==
  /\ pc = "applied"
  /\ Len(renames) = 2 /\ Len(calls) = 3
  /\ renames[1].oldName \notin NewNamesOf(renames)
  /\ renames[2].oldName \in NewNamesOf(renames)
  /\ calls[1].from = renames[2].oldName
  /\ calls[3].from = calls[1].to


(***************************************************************************)
(* Script mode (checked under Spec)                                        *)
(***************************************************************************)

AnyScriptOption == args.hasDir \/ args.hasFind \/ args.hasReplace
AllScriptOptions == args.hasDir /\ args.hasFind /\ args.hasReplace

\* C19: once main has chosen, the run is in script mode exactly when
\* neither --help nor --version is set and one of --dir, --find, --replace
\* is given; a script run that lacks one of the three exits with code 1 at
\* its first step: no listing, no batch, no rename.
C19_ScriptModeNeedsAllThree ==
  /\ pc # "main" =>
       (mode = "script") = (~args.help /\ ~args.version /\ AnyScriptOption)
  /\ mode = "script" /\ ~AllScriptOptions =>
       /\ pc = "s_args" \/ (pc = "exited" /\ exitCode = 1)
       /\ files = <<>> /\ plan = NoPlan
       /\ applyCalls = 0 /\ calls = <<>> /\ dir = dir0

\* A script run given --dir alone has exited with code 1.
C19_Witness ==
  /\ mode = "script"
  /\ args.hasDir /\ ~args.hasFind /\ ~args.hasReplace
  /\ pc = "exited" /\ exitCode = 1


\* C20: no oldName of a batch computeNewNames returned is a newName of that
\* batch; so when a run applies its batch, phase 1 moves nothing, no
\* temporary name appears in the directory, and the calls are one rename
\* oldName -> newName per entry, in batch order.
C20_PlannedBatchNeedsNoStaging ==
  /\ plan.ok => OldNamesOf(plan.renames) \cap NewNamesOf(plan.renames) = {}
  /\ mode # "none" =>
       /\ moved = NoEntries
       /\ StagingNames(renames) \cap DOMAIN dir = {}
       /\ Len(calls) <= Len(renames)
       /\ \A k \in 1..Len(calls) :
            calls[k].from = renames[k].oldName /\ calls[k].to = renames[k].newName
       /\ pc = "applied" => Len(calls) = Len(renames)

\* A run has applied a batch of two entries with two rename calls.
C20_Witness ==
  /\ mode # "none" /\ pc = "applied"
  /\ BatchComputed /\ Len(renames) = 2
  /\ Len(calls) = 2 /\ calls[1].ok /\ calls[2].ok
  /\ moved = NoEntries


(***************************************************************************)
(* The planner and the order of its input (checked under PlanSpec)         *)
(***************************************************************************)

\* What computeNewNames returns or throws for the same names in any order,
\* with the same pattern.
Reordered ==
  {computeNewNames(listing, find, replace, isRegex) :
     listing \in Orderings(Range(files))}

\* C21: for distinct file names and one pattern, computeNewNames returns
\* for every ordering of the names or throws for every ordering, and the
\* batches it returns hold the same entries; the order of the entries, the
\* kind of error and the name reported are left free.
C21_OrderIndependent ==
  Planned /\ DistinctFiles =>
    \A other \in Reordered :
      /\ other.ok = plan.ok
      /\ plan.ok => Range(other.renames) = Range(plan.renames)

\* Two files are both renamed, and the other ordering gives the same
\* entries in another order.
C21_Witness ==
  /\ Planned /\ DistinctFiles /\ plan.ok
  /\ Len(plan.renames) = 2
  /\ \E other \in Reordered :
       other.ok /\ other.renames # plan.renames

====
